---- MODULE Spec2Model ----
(***************************************************************************)
(* A model of try.py: OCR word records -> assembled text -> regex PII      *)
(* detection -> token set -> per-word redaction of the original image,     *)
(* and the batch driver around it.                                         *)
(*                                                                         *)
(* A Python str is a sequence of one-character strings, so that the       *)
(* regular expressions, str.strip, str.lower and float() are computed     *)
(* character by character.  The alphabet is ASCII.                         *)
(***************************************************************************)
EXTENDS Integers, Sequences, FiniteSets, TLC

(***************************************************************************)
(* Characters and the character classes of Python's re module.             *)
(***************************************************************************)
UpperSeq ==
  << "A","B","C","D","E","F","G","H","I","J","K","L","M",
     "N","O","P","Q","R","S","T","U","V","W","X","Y","Z" >>

LowerSeq ==
  << "a","b","c","d","e","f","g","h","i","j","k","l","m",
     "n","o","p","q","r","s","t","u","v","w","x","y","z" >>

Range(s) == { s[k] : k \in 1..Len(s) }

UpperChars == Range(UpperSeq)

LowerChars == Range(LowerSeq)

\* [A-Za-z]
Letters == UpperChars \cup LowerChars

\* \d
Digits == {"0","1","2","3","4","5","6","7","8","9"}

\* \s
Whitespace == {" ", "\t", "\n"}

\* \w
WordChars == Letters \cup Digits \cup {"_"}

\* str.lower() and str.upper() on one character
LowerChar(c) ==
  IF c \in UpperChars THEN LowerSeq[CHOOSE k \in 1..Len(UpperSeq) : UpperSeq[k] = c] ELSE c

UpperChar(c) ==
  IF c \in LowerChars THEN UpperSeq[CHOOSE k \in 1..Len(LowerSeq) : LowerSeq[k] = c] ELSE c

Lower(s) == [k \in 1..Len(s) |-> LowerChar(s[k])]

Upper(s) == [k \in 1..Len(s) |-> UpperChar(s[k])]

\* str.strip(): leading and trailing whitespace removed
Strip(s) ==
  IF \A k \in 1..Len(s) : s[k] \in Whitespace THEN << >>
  ELSE LET a == CHOOSE k \in 1..Len(s) :
                  s[k] \notin Whitespace /\ \A j \in 1..(k-1) : s[j] \in Whitespace
           b == CHOOSE k \in 1..Len(s) :
                  s[k] \notin Whitespace /\ \A j \in (k+1)..Len(s) : s[j] \in Whitespace
       IN SubSeq(s, a, b)

\* the character at position p (1-based), "" outside the string
At(s, p) == IF p >= 1 /\ p <= Len(s) THEN s[p] ELSE ""

\* the literal lit (given in lower case) at p, ignoring case (re.IGNORECASE)
LitCI(s, p, lit) == \A k \in 1..Len(lit) : LowerChar(At(s, p + k - 1)) = lit[k]

\* the literal lit at p, case-sensitively
LitCS(s, p, lit) == \A k \in 1..Len(lit) : At(s, p + k - 1) = lit[k]

\* greedy C*: the first position from p on whose character is not in class
RECURSIVE RunEnd(_, _, _)
RunEnd(s, p, class) == IF At(s, p) \in class THEN RunEnd(s, p + 1, class) ELSE p

\* greedy [:\-]? : the position after an optional separator at p
OptSep(s, p) == IF At(s, p) \in {":", "-"} THEN p + 1 ELSE p

\* \b at position p: exactly one of the characters before and at p is a \w
WordBoundary(s, p) == (At(s, p - 1) \in WordChars) # (At(s, p) \in WordChars)

NoMatch == [ok |-> FALSE, end |-> 0, val |-> << >>]

Matched(e, v) == [ok |-> TRUE, end |-> e, val |-> v]

(***************************************************************************)
(* The eight patterns of detect_pii, each as "the match that re finds     *)
(* when it starts at position p": end is the position after the match,    *)
(* val what findall reports (the group, or the whole match).               *)
(***************************************************************************)

\* r"Patient\s*Name[:\-]?\s*([A-Za-z\s]+)", re.IGNORECASE
\* \s*(...)+ : the group is the run's tail after its leading whitespace; a
\* run of whitespace only makes \s* give back its last character.
MatchPatientName(s, p) ==
  IF ~LitCI(s, p, <<"p","a","t","i","e","n","t">>) THEN NoMatch
  ELSE LET q1 == RunEnd(s, p + 7, Whitespace) IN
    IF ~LitCI(s, q1, <<"n","a","m","e">>) THEN NoMatch
    ELSE LET q2 == OptSep(s, q1 + 4)
             q3 == RunEnd(s, q2, Whitespace)
             e  == RunEnd(s, q2, Letters \cup Whitespace)
         IN IF e = q2 THEN NoMatch
            ELSE IF q3 = e THEN Matched(e, SubSeq(s, e - 1, e - 1))
            ELSE Matched(e, SubSeq(s, q3, e - 1))

\* r"<label>\s*No\.?\s*[:\-]?\s*([A-Za-z0-9/]+)", re.IGNORECASE
MatchNo(s, p, label) ==
  IF ~LitCI(s, p, label) THEN NoMatch
  ELSE LET q1 == RunEnd(s, p + Len(label), Whitespace) IN
    IF ~LitCI(s, q1, <<"n","o">>) THEN NoMatch
    ELSE LET q2 == IF At(s, q1 + 2) = "." THEN q1 + 3 ELSE q1 + 2
             q3 == RunEnd(s, q2, Whitespace)
             q4 == RunEnd(s, OptSep(s, q3), Whitespace)
             e  == RunEnd(s, q4, Letters \cup Digits \cup {"/"})
         IN IF e = q4 THEN NoMatch ELSE Matched(e, SubSeq(s, q4, e - 1))

\* r"IPD\s*No\.?\s*[:\-]?\s*([A-Za-z0-9/]+)", re.IGNORECASE
MatchIpdNo(s, p) == MatchNo(s, p, <<"i","p","d">>)

\* r"UHID\s*No\.?\s*[:\-]?\s*([A-Za-z0-9/]+)", re.IGNORECASE
MatchUhid(s, p) == MatchNo(s, p, <<"u","h","i","d">>)

Min(a, b) == IF a < b THEN a ELSE b

\* r"Age\s*[:\-]?\s*(\d{1,3})", re.IGNORECASE
MatchAge(s, p) ==
  IF ~LitCI(s, p, <<"a","g","e">>) THEN NoMatch
  ELSE LET q1 == RunEnd(s, p + 3, Whitespace)
           q2 == RunEnd(s, OptSep(s, q1), Whitespace)
           e  == Min(RunEnd(s, q2, Digits), q2 + 3)
       IN IF e = q2 THEN NoMatch ELSE Matched(e, SubSeq(s, q2, e - 1))

\* r"Sex\s*[:\-]?\s*([MFmf])" : no flags, the label is case-sensitive
MatchSex(s, p) ==
  IF ~LitCS(s, p, <<"S","e","x">>) THEN NoMatch
  ELSE LET q1 == RunEnd(s, p + 3, Whitespace)
           q2 == RunEnd(s, OptSep(s, q1), Whitespace)
       IN IF At(s, q2) \in {"M","F","m","f"}
          THEN Matched(q2 + 1, SubSeq(s, q2, q2)) ELSE NoMatch

AllDigits(s, a, b) == \A k \in a..b : At(s, k) \in Digits

\* r"\b\d{1,2}[/-]\d{1,2}[/-]\d{2,4}\b" : the counts are tried greedily,
\* longest first, backtracking until the closing \b holds
DateCounts ==
  { [a |-> a, b |-> b, c |-> c] : a \in 1..2, b \in 1..2, c \in 2..4 }

DateFits(s, p, n) ==
  /\ WordBoundary(s, p)
  /\ AllDigits(s, p, p + n.a - 1)
  /\ At(s, p + n.a) \in {"/", "-"}
  /\ AllDigits(s, p + n.a + 1, p + n.a + n.b)
  /\ At(s, p + n.a + n.b + 1) \in {"/", "-"}
  /\ AllDigits(s, p + n.a + n.b + 2, p + n.a + n.b + n.c + 1)
  /\ WordBoundary(s, p + n.a + n.b + n.c + 2)

\* the order in which the backtracking matcher tries the counts
DatePrefers(m, n) ==
  \/ m.a > n.a
  \/ m.a = n.a /\ m.b > n.b
  \/ m.a = n.a /\ m.b = n.b /\ m.c >= n.c

MatchDate(s, p) ==
  LET fits == { n \in DateCounts : DateFits(s, p, n) } IN
  IF At(s, p) \notin Digits \/ fits = {} THEN NoMatch
  ELSE LET n == CHOOSE m \in fits : \A o \in fits : DatePrefers(m, o)
           e == p + n.a + n.b + n.c + 2
       IN Matched(e, SubSeq(s, p, e - 1))

\* r"\b\d{6,}\b"
MatchLongNumber(s, p) ==
  LET e == RunEnd(s, p, Digits) IN
  IF WordBoundary(s, p) /\ e - p >= 6 /\ WordBoundary(s, e)
  THEN Matched(e, SubSeq(s, p, e - 1)) ELSE NoMatch

\* r"\b\d{10}\b"
MatchPhone(s, p) ==
  IF WordBoundary(s, p) /\ AllDigits(s, p, p + 9) /\ WordBoundary(s, p + 10)
  THEN Matched(p + 10, SubSeq(s, p, p + 9)) ELSE NoMatch

\* r"\w+"
MatchWord(s, p) ==
  LET e == RunEnd(s, p, WordChars) IN
  IF e = p THEN NoMatch ELSE Matched(e, SubSeq(s, p, e - 1))

Rules ==
  << "patient_name", "ipd_no", "uhid", "age", "sex", "dates", "long_numbers", "phone" >>

MatchAt(rule, s, p) ==
  CASE rule = "patient_name" -> MatchPatientName(s, p)
    [] rule = "ipd_no"       -> MatchIpdNo(s, p)
    [] rule = "uhid"         -> MatchUhid(s, p)
    [] rule = "age"          -> MatchAge(s, p)
    [] rule = "sex"          -> MatchSex(s, p)
    [] rule = "dates"        -> MatchDate(s, p)
    [] rule = "long_numbers" -> MatchLongNumber(s, p)
    [] rule = "phone"        -> MatchPhone(s, p)
    [] rule = "word"         -> MatchWord(s, p)

\* re.findall: the leftmost matches, left to right, not overlapping
RECURSIVE FindAllFrom(_, _, _)
FindAllFrom(rule, s, p) ==
  IF p > Len(s) THEN << >>
  ELSE LET m == MatchAt(rule, s, p) IN
       IF m.ok THEN << m.val >> \o FindAllFrom(rule, s, m.end)
       ELSE FindAllFrom(rule, s, p + 1)

FindAll(rule, s) == FindAllFrom(rule, s, 1)

\* re.sub(r"\W+", "", s): the \w characters of s, in order
RECURSIVE StripNonWord(_)
StripNonWord(s) ==
  IF s = << >> THEN << >>
  ELSE (IF Head(s) \in WordChars THEN << Head(s) >> ELSE << >>) \o StripNonWord(Tail(s))


(***************************************************************************)
(* Values of ocr_data["conf"]: a Python int, str or None.                  *)
(***************************************************************************)
PyInt(n) == [ty |-> "int", n |-> n, s |-> << >>]

PyStr(s) == [ty |-> "str", n |-> 0, s |-> s]

PyNone == [ty |-> "NoneType", n |-> 0, s |-> << >>]

\* A float() result: a finite number -(ip + f) or +(ip + f) with 0 <= f < 1
\* (frac says f > 0), a NaN, an infinity, or the exception float() raises.
Num(neg, ip, frac) == [kind |-> "num", neg |-> neg, ip |-> ip, frac |-> frac]

NaN == [kind |-> "nan", neg |-> FALSE, ip |-> 0, frac |-> FALSE]

Inf(neg) == [kind |-> "inf", neg |-> neg, ip |-> 0, frac |-> FALSE]

Raised(e) == [kind |-> e, neg |-> FALSE, ip |-> 0, frac |-> FALSE]

DigitValue(c) ==
  CASE c = "0" -> 0 [] c = "1" -> 1 [] c = "2" -> 2 [] c = "3" -> 3 [] c = "4" -> 4
    [] c = "5" -> 5 [] c = "6" -> 6 [] c = "7" -> 7 [] c = "8" -> 8 [] c = "9" -> 9

RECURSIVE DigitsValue(_)
DigitsValue(s) ==
  IF s = << >> THEN 0 ELSE 10 * DigitsValue(SubSeq(s, 1, Len(s) - 1)) + DigitValue(s[Len(s)])

\* float(str): surrounding whitespace stripped, an optional sign, then
\* "nan", "inf" or "infinity" in any case, or digits with an optional
\* fraction (exponents and digit-group underscores are not in the alphabet
\* of the confidences drawn here); anything else raises ValueError.
FloatOfStr(str) ==
  LET t    == Strip(str)
      neg  == At(t, 1) = "-"
      body == IF At(t, 1) \in {"+", "-"} THEN Tail(t) ELSE t
      low  == Lower(body)
      e1   == RunEnd(body, 1, Digits)
      e2   == IF At(body, e1) = "." THEN RunEnd(body, e1 + 1, Digits) ELSE e1
      ndig == (e1 - 1) + (IF e2 > e1 THEN e2 - e1 - 1 ELSE 0)
  IN CASE low = <<"n","a","n">> -> NaN
       [] low \in { <<"i","n","f">>, <<"i","n","f","i","n","i","t","y">> } -> Inf(neg)
       [] OTHER ->
            IF e2 = Len(body) + 1 /\ ndig >= 1
            THEN Num(neg, DigitsValue(SubSeq(body, 1, e1 - 1)),
                     \E k \in (e1 + 1)..(e2 - 1) : body[k] # "0")
            ELSE Raised("ValueError")

\* float(x)
Float(x) ==
  CASE x.ty = "int" -> Num(x.n < 0, IF x.n < 0 THEN -x.n ELSE x.n, FALSE)
    [] x.ty = "str" -> FloatOfStr(x.s)
    [] OTHER        -> Raised("TypeError")

\* the comparison turned round (conf > t): the filter then drops the
\* confident words instead of the doubtful ones
GreaterThan(f, t) ==
  CASE f.kind = "nan" -> FALSE
    [] f.kind = "inf" -> ~f.neg
    [] f.kind = "num" ->
         IF f.neg THEN -f.ip > t
         ELSE f.ip > t \/ (f.ip = t /\ f.frac)

\* conf < t for a float conf and an int t; every comparison with NaN is False
LessThan(f, t) ==
  CASE f.kind = "nan" -> FALSE
    [] f.kind = "inf" -> f.neg
    [] f.kind = "num" ->
         IF f.neg THEN (IF f.frac THEN -f.ip <= t ELSE -f.ip < t)
         ELSE f.ip < t

\* the literal of "if conf < 40"
ConfThreshold == 40

(***************************************************************************)
(* Images: a numpy array of BGR pixels, indexed by <<row, column>>.        *)
(***************************************************************************)
ImgW == 3

ImgH == 3

Pixels == (0..(ImgH - 1)) \X (0..(ImgW - 1))

Black == << 0, 0, 0 >>

White == << 255, 255, 255 >>

\* a rectangle blended into the image at half opacity instead of
\* overwriting it
RectangleBlend(img, x, y, w, h) ==
  [ p \in Pixels |->
      IF x <= p[2] /\ p[2] <= x + w /\ y <= p[1] /\ p[1] <= y + h
      THEN [ k \in 1..3 |-> img[p][k] \div 2 ] ELSE img[p] ]

\* cv2.rectangle(img, (x, y), (x + w, y + h), (0, 0, 0), -1): the filled
\* rectangle holds both corner points, so columns x..x+w and rows y..y+h,
\* clipped to the image.
Rectangle(img, x, y, w, h) ==
  [ p \in Pixels |->
      IF x <= p[2] /\ p[2] <= x + w /\ y <= p[1] /\ p[1] <= y + h THEN Black ELSE img[p] ]

(***************************************************************************)
(* build_full_text, detect_pii, build_pii_token_set, redact_image          *)
(***************************************************************************)
WordRecord(text, conf, left, top, width, height) ==
  [text |-> text, conf |-> conf, left |-> left, top |-> top,
   width |-> width, height |-> height]

\* " ".join(words)
RECURSIVE Join(_)
Join(words) ==
  IF words = << >> THEN << >>
  ELSE IF Len(words) = 1 THEN words[1]
  ELSE words[1] \o << " " >> \o Join(Tail(words))

RECURSIVE NonBlank(_)
NonBlank(ocr) ==
  IF ocr = << >> THEN << >>
  ELSE (IF Strip(ocr[1].text) # << >> THEN << ocr[1].text >> ELSE << >>) \o NonBlank(Tail(ocr))

build_full_text(ocr) == Join(NonBlank(ocr))

\* the categories whose values are list(set(matches))
DedupRules == {"dates", "long_numbers", "phone"}

\* every order in which a list built from the set S can come out
Perms(S) ==
  { q \in [1..Cardinality(S) -> S] : \A a \in S : \E k \in 1..Cardinality(S) : q[k] = a }

\* the assignment to pii[category] made without its guard
AlwaysStores(matches) == TRUE

\* "if matches:" guards each assignment to pii[category]
HasMatches(matches) == matches # << >>

\* the lists detect_pii can store for a rule, given its findall result
RuleValues(rule, matches) ==
  CASE rule = "patient_name" -> { [k \in 1..Len(matches) |-> Strip(matches[k])] }
    [] rule = "sex"          -> { [k \in 1..Len(matches) |-> Upper(matches[k])] }
    [] rule \in DedupRules   -> Perms(Range(matches))
    [] OTHER                 -> { matches }

Range2(f) == { f[x] : x \in DOMAIN f }

\* detect_pii(text): the dicts it can return, one per iteration order of the
\* sets it turns into lists
detect_pii(text) ==
  LET found  == [ r \in Range(Rules) |-> FindAll(r, text) ]
      keys   == { r \in Range(Rules) : HasMatches(found[r]) }
      values == [ r \in keys |-> RuleValues(r, found[r]) ]
  IN { d \in [keys -> UNION Range2(values)] : \A r \in keys : d[r] \in values[r] }

build_pii_token_set(pii) ==
  UNION { UNION { { Lower(tok) : tok \in Range(FindAll("word", pii[key][k])) } :
                    k \in 1..Len(pii[key]) } :
            key \in DOMAIN pii }


\* what one iteration of redact_image's loop does with a word record, the
\* threshold of the confidence filter being thr
WordOutcome(rec, tokens, thr) ==
  IF rec.text = << >> \/ Strip(rec.text) = << >> THEN "skip_blank"
  ELSE LET f == Float(rec.conf) IN
    IF f.kind = "TypeError" THEN "TypeError"
    ELSE LET conf  == IF f.kind = "ValueError" THEN Num(TRUE, 1, FALSE) ELSE f
             clean == Lower(StripNonWord(rec.text))
         IN IF LessThan(conf, thr) THEN "skip_conf"
            ELSE IF clean = << >> THEN "skip_clean"
            ELSE IF clean \in tokens THEN "fill"
            ELSE "no_match"

\* the state of a call of redact_image: the copy being drawn on, the
\* exception that left the loop (if any), the indices whose box was filled
\* and the indices whose iteration ran to its end
RedactStart(original) ==
  [img |-> original, exc |-> "", filled |-> {}, visited |-> {}]

RECURSIVE RedactLoop(_, _, _, _, _)
RedactLoop(st, ocr, tokens, thr, i) ==
  IF i > Len(ocr) THEN st
  ELSE LET out == WordOutcome(ocr[i], tokens, thr) IN
    IF out = "TypeError" THEN [st EXCEPT !.exc = "TypeError"]
    ELSE IF out = "fill"
    THEN RedactLoop([img     |-> Rectangle(st.img, ocr[i].left, ocr[i].top,
                                           ocr[i].width, ocr[i].height),
                     exc     |-> "",
                     filled  |-> st.filled \cup {i},
                     visited |-> st.visited \cup {i}], ocr, tokens, thr, i + 1)
    ELSE RedactLoop([st EXCEPT !.visited = @ \cup {i}], ocr, tokens, thr, i + 1)

\* redact_image with the threshold as a parameter
RedactWith(original, ocr, tokens, thr) ==
  RedactLoop(RedactStart(original), ocr, tokens, thr, 1)

redact_image(original, ocr, tokens) == RedactWith(original, ocr, tokens, ConfThreshold)

(***************************************************************************)
(* The inputs: word texts, confidences, boxes, images, files.              *)
(***************************************************************************)
MaxWords == 2

MaxPhrases == 2

MaxImages == 2

\* the page every file of the batch decodes to, and a blank page
Page ==
  [ p \in Pixels |->
      IF p = << 0, 0 >> THEN Black
      ELSE IF (p[1] + p[2]) % 2 = 0 THEN White ELSE << 10, 20, 30 >> ]

Blank == [ p \in Pixels |-> White ]

\* sequences over S of length at most n
SeqsUpTo(S, n) == UNION { [1..k -> S] : k \in 0..n }

\* --- redact_image called directly ---
RedactTexts ==
  { <<"J","o","h","n">>, <<"d","o","e",",">>, << >>, <<"-","-">> }

ConfValues ==
  { PyInt(40), PyInt(39),
    PyStr(<<"9","6",".","5">>), PyStr(<<"a","b","c">>), PyStr(<<"n","a","n">>),
    PyNone }

\* a word row before its box is known
Word(text, conf) == [text |-> text, conf |-> conf]

RedactWords == { Word(t, c) : t \in RedactTexts, c \in ConfValues }

\* where the words of a page lie: side by side on the first line, or one
\* below the other in the second column
Layouts == { "line", "column" }

\* the word rows of a page, its k-th word boxed as the layout says
Document(words, layout) ==
  [ k \in 1..Len(words) |->
      IF layout = "line"
      THEN WordRecord(words[k].text, words[k].conf, (k - 1) % ImgW, 0, 1, 1)
      ELSE WordRecord(words[k].text, words[k].conf, 1, (k - 1) % ImgH, 0, 1) ]

RedactDocuments ==
  { Document(ws, l) : ws \in SeqsUpTo(RedactWords, MaxWords), l \in Layouts }

TokenSets ==
  { { <<"j","o","h","n">> }, { <<"j","o","h","n">>, <<"d","o","e">> } }

Thresholds == { -1, 40, 41, 97 }

\* --- the pipeline on a scanned page ---
Phrases ==
  { << <<"P","a","t","i","e","n","t">>, <<"N","a","m","e",":">>,
       <<"J","o","h","n">>, <<"D","o","e">> >>,
    << <<"A","g","e",":">>, <<"3","4">> >>,
    << <<"S","e","x",":">>, <<"M">> >>,
    << <<"s","e","x",":">>, <<"m">> >>,
    << <<"S","E","X",":">>, <<"F">> >>,
    << <<"1","1","/","1","1","/","2","5">> >>,
    << <<"1","0","-","4","-","2","0","2","5">> >>,
    << <<"I","P","D">>, <<"N","o",".">>, <<"A","/","1","2">> >>,
    << <<"U","H","I","D">>, <<"N","o",":">>, <<"U","7","7">> >>,
    << <<"1","2","3","4","5","6">> >>,
    << <<"9","8","7","6","5","4","3","2","1","0">> >>,
    << <<"h","e","l","l","o">> >>,
    << << >> >> }

RECURSIVE Concat(_)
Concat(ss) == IF ss = << >> THEN << >> ELSE Head(ss) \o Concat(Tail(ss))

\* how the confidences of a page's words come out: all None, or
\* alternating high and low
ConfPatterns == { "mixed", "none" }

ConfOf(pattern, k) ==
  CASE pattern = "none"  -> PyNone
    [] pattern = "mixed" -> IF k % 2 = 1 THEN PyInt(96) ELSE PyInt(10)

\* a page of phrases, its confidences following a pattern, on one line
Scanned(texts, pattern) ==
  Document([ k \in 1..Len(texts) |-> Word(texts[k], ConfOf(pattern, k)) ], "line")

Documents ==
  { Scanned(Concat(ps), c) : ps \in SeqsUpTo(Phrases, MaxPhrases), c \in ConfPatterns }

\* an image file: whether cv2.imread decodes it, whether Tesseract runs on
\* it, whether its outputs can be written, and what is on it
File(readable, ocr_ok, write_ok, image, doc) ==
  [readable |-> readable, ocr_ok |-> ocr_ok, write_ok |-> write_ok,
   image |-> image, doc |-> doc]

GoodFile(doc) == File(TRUE, TRUE, TRUE, Page, doc)

FailingFiles ==
  { File(FALSE, TRUE, TRUE, Page, << >>),
    File(TRUE, FALSE, TRUE, Page, << >>),
    File(TRUE, TRUE, FALSE, Page, << >>) }

PipelineFiles == FailingFiles \cup { GoodFile(d) : d \in Documents }

SampleTexts ==
  { << <<"P","a","t","i","e","n","t">>, <<"N","a","m","e",":">>, <<"J","o","h","n">> >>,
    << <<"h","e","l","l","o">> >> }

BatchFiles ==
  FailingFiles \cup { GoodFile(Scanned(t, c)) : t \in SampleTexts, c \in ConfPatterns }

ImagesDir(exists, files) == [exists |-> exists, files |-> files]

(***************************************************************************)
(* The program state.                                                      *)
(***************************************************************************)
VARIABLES
  pc,              \* where the program is
  images_dir,      \* IMAGES_DIR: whether it exists, and its image files
  idx,             \* main: the number of the image being processed (0: none)
  img_bgr,         \* process_single_image: the original image
  ocr_data,        \* the OCR word rows
  extracted_text,
  pii,
  pii_tokens,
  redacted,        \* the state of the redact_image call, its result at the end
  again,           \* redact_image applied to its own result
  outputs,         \* the images whose three output files are written
  exc              \* the exception that ended the program ("" : none)

vars ==
  << pc, images_dir, idx, img_bgr, ocr_data, extracted_text, pii, pii_tokens,
     redacted, again, outputs, exc >>

NoPii == [ r \in {} |-> << >> ]

\* no image is being processed
Locals ==
  /\ img_bgr = Blank
  /\ ocr_data = << >>
  /\ extracted_text = << >>
  /\ pii = NoPii
  /\ pii_tokens = {}
  /\ redacted = RedactStart(Blank)

\* main() starts on a directory of at most MaxImages image files
Init ==
  /\ pc = "main"
  /\ images_dir \in { ImagesDir(FALSE, << >>) } \cup
                    { ImagesDir(TRUE, fs) : fs \in SeqsUpTo(BatchFiles, MaxImages) }
  /\ idx = 0
  /\ Locals
  /\ again = RedactStart(Blank)
  /\ outputs = {}
  /\ exc = ""

\* main() on a directory holding one page
InitPipeline ==
  /\ pc = "main"
  /\ images_dir \in { ImagesDir(TRUE, << f >>) : f \in PipelineFiles }
  /\ idx = 0
  /\ Locals
  /\ again = RedactStart(Blank)
  /\ outputs = {}
  /\ exc = ""

\* redact_image called on an image, word rows and a token set
InitRedact ==
  /\ pc = "redact"
  /\ images_dir = ImagesDir(FALSE, << >>)
  /\ idx = 0
  /\ img_bgr = Page
  /\ ocr_data \in RedactDocuments
  /\ extracted_text = << >>
  /\ pii = NoPii
  /\ pii_tokens \in TokenSets
  /\ redacted = RedactStart(Blank)
  /\ again = RedactStart(Blank)
  /\ outputs = {}
  /\ exc = ""

ResetLocals ==
  /\ img_bgr' = Blank
  /\ ocr_data' = << >>
  /\ extracted_text' = << >>
  /\ pii' = NoPii
  /\ pii_tokens' = {}
  /\ redacted' = RedactStart(Blank)

CurrentFile == images_dir.files[idx]

\* main, up to its loop: the two early returns
Main ==
  /\ pc = "main"
  /\ pc' = IF images_dir.exists /\ images_dir.files # << >> THEN "loop" ELSE "done"
  /\ UNCHANGED << images_dir, idx, img_bgr, ocr_data, extracted_text, pii, pii_tokens,
                  redacted, again, outputs, exc >>

\* for img_name in image_files: process_single_image(img_path)
Loop ==
  /\ pc = "loop"
  /\ IF idx < Len(images_dir.files)
     THEN idx' = idx + 1 /\ pc' = "imread"
     ELSE idx' = idx /\ pc' = "done"
  /\ UNCHANGED << images_dir, img_bgr, ocr_data, extracted_text, pii, pii_tokens,
                  redacted, again, outputs, exc >>

\* img_bgr = cv2.imread(image_path); None: skip the image
Imread ==
  /\ pc = "imread"
  /\ IF CurrentFile.readable
     THEN img_bgr' = CurrentFile.image /\ pc' = "ocr"
     ELSE img_bgr' = img_bgr /\ pc' = "loop"
  /\ UNCHANGED << images_dir, idx, ocr_data, extracted_text, pii, pii_tokens,
                  redacted, again, outputs, exc >>

\* preprocess_image, ocr_with_boxes: pytesseract raises when Tesseract fails
Ocr ==
  /\ pc = "ocr"
  /\ IF CurrentFile.ocr_ok
     THEN ocr_data' = CurrentFile.doc /\ pc' = "text" /\ exc' = exc
     ELSE ocr_data' = ocr_data /\ pc' = "raised" /\ exc' = "TesseractError"
  /\ UNCHANGED << images_dir, idx, img_bgr, extracted_text, pii, pii_tokens,
                  redacted, again, outputs >>

BuildFullText ==
  /\ pc = "text"
  /\ extracted_text' = build_full_text(ocr_data)
  /\ pc' = "detect"
  /\ UNCHANGED << images_dir, idx, img_bgr, ocr_data, pii, pii_tokens,
                  redacted, again, outputs, exc >>

DetectPii ==
  /\ pc = "detect"
  /\ pii' \in detect_pii(extracted_text)
  /\ pc' = "tokens"
  /\ UNCHANGED << images_dir, idx, img_bgr, ocr_data, extracted_text, pii_tokens,
                  redacted, again, outputs, exc >>

BuildPiiTokenSet ==
  /\ pc = "tokens"
  /\ pii_tokens' = build_pii_token_set(pii)
  /\ pc' = "redact"
  /\ UNCHANGED << images_dir, idx, img_bgr, ocr_data, extracted_text, pii,
                  redacted, again, outputs, exc >>

\* redacted = redact_image(img_bgr, ocr_data, pii_tokens); an exception in it
\* is caught nowhere
RedactImage ==
  /\ pc = "redact"
  /\ redacted' = redact_image(img_bgr, ocr_data, pii_tokens)
  /\ exc' = redacted'.exc
  /\ pc' = IF redacted'.exc # "" THEN "raised"
           ELSE IF idx = 0 THEN "returned" ELSE "save"
  /\ UNCHANGED << images_dir, idx, img_bgr, ocr_data, extracted_text, pii, pii_tokens,
                  again, outputs >>

\* the three output files; open() raises OSError when one cannot be written
Save ==
  /\ pc = "save"
  /\ IF CurrentFile.write_ok
     THEN /\ outputs' = outputs \cup {idx}
          /\ pc' = "loop"
          /\ exc' = exc
          /\ ResetLocals
     ELSE /\ pc' = "raised"
          /\ exc' = "OSError"
          /\ UNCHANGED << img_bgr, ocr_data, extracted_text, pii, pii_tokens,
                          redacted, outputs >>
  /\ UNCHANGED << images_dir, idx, again >>

\* redact_image applied to the image it returned, with the same word rows
\* and token set
Reapply ==
  /\ pc = "returned"
  /\ again' = redact_image(redacted.img, ocr_data, pii_tokens)
  /\ pc' = "reapplied"
  /\ UNCHANGED << images_dir, idx, img_bgr, ocr_data, extracted_text, pii, pii_tokens,
                  redacted, outputs, exc >>

Next ==
  \/ Main
  \/ Loop
  \/ Imread
  \/ Ocr
  \/ BuildFullText
  \/ DetectPii
  \/ BuildPiiTokenSet
  \/ RedactImage
  \/ Save

NextRedact ==
  \/ RedactImage
  \/ Reapply

\* main() over a batch of image files
Spec == Init /\ [][Next]_vars

\* main() over one scanned page
SpecPipeline == InitPipeline /\ [][Next]_vars

\* redact_image as a function of its three arguments
SpecRedact == InitRedact /\ [][NextRedact]_vars

(***************************************************************************)
(* The claims.                                                             *)
(***************************************************************************)

\* the call of redact_image has ended, by return or by an exception
RedactEnded == pc \in {"returned", "raised"}

\* the word indices whose box is filled in the image redact_image returns
\* (none when it returns no image)
FilledInResult == IF redacted.exc = "" THEN redacted.filled ELSE {}

\* float() makes a number of the confidence
ParsesAsNumber(conf) == Float(conf).kind \in {"num", "inf"}

\* conditions (a), (b) and (c) of the Redactor's contract, for threshold 40
QualifiesAsSpecified(rec, tokens) ==
  /\ Strip(rec.text) # << >>
  /\ ParsesAsNumber(rec.conf) /\ ~LessThan(Float(rec.conf), 40)
  /\ Lower(StripNonWord(rec.text)) # << >>
  /\ Lower(StripNonWord(rec.text)) \in tokens

\* C1: redact_image fills the box of word i if and only if its trimmed text
\* is non-empty, its confidence parses as a number that is >= 40, and its
\* text without non-word characters, lower-cased, is a non-empty member of
\* the token set.
C1_FillsIffQualifies ==
  RedactEnded =>
    \A i \in 1..Len(ocr_data) :
      (i \in FilledInResult) <=> QualifiesAsSpecified(ocr_data[i], pii_tokens)

\* pixel p lies in the bounding box {left, top, width, height} of rec
InBox(p, rec) ==
  /\ rec.left <= p[2] /\ p[2] < rec.left + rec.width
  /\ rec.top <= p[1] /\ p[1] < rec.top + rec.height

\* C2: in the returned image every pixel inside the bounding box of a
\* redacted word is black, and every pixel outside all of these boxes has
\* the value it has in the original image.
C2_ExactlyTheBoxes ==
  pc = "returned" =>
    \A p \in Pixels :
      IF \E i \in redacted.filled : InBox(p, ocr_data[i])
      THEN redacted.img[p] = Black
      ELSE redacted.img[p] = img_bgr[p]

\* C3: a word whose confidence is not a number is never redacted, raises no
\* error, and does not keep the remaining words from being processed.
C3_NonNumericConfidenceIsSkipped ==
  RedactEnded =>
    \A i \in 1..Len(ocr_data) :
      ~ParsesAsNumber(ocr_data[i].conf) =>
        /\ redacted.exc = ""
        /\ i \notin redacted.filled
        /\ redacted.visited = 1..Len(ocr_data)

\* C4: no exception escapes process_single_image, so a failure on one image
\* never ends the batch before its last image.
C4_FailureIsContained == pc # "raised" /\ exc = ""

\* detect_pii has returned for the current image
Detected == pc \in {"tokens", "redact", "save"}

\* C5: detect_pii's result has a category key if and only if the category's
\* rule matches somewhere in the text, and no key holds an empty list.
C5_KeyIffMatch ==
  /\ \A key \in DOMAIN pii : pii[key] # << >>
  /\ Detected =>
       \A r \in Range(Rules) :
         (r \in DOMAIN pii) <=> (FindAll(r, extracted_text) # << >>)

\* C5, reached: a text in which some rules match and others do not
C5_SomeKeysPresentSomeAbsent ==
  /\ Detected
  /\ DOMAIN pii # {}
  /\ \E r \in Range(Rules) : r \notin DOMAIN pii

\* the letters after a "Sex" label written in any letter case
RECURSIVE SexLabelsAnyCase(_, _)
SexLabelsAnyCase(s, p) ==
  IF p > Len(s) THEN << >>
  ELSE LET q1 == RunEnd(s, p + 3, Whitespace)
           q2 == RunEnd(s, OptSep(s, q1), Whitespace)
       IN IF LitCI(s, p, <<"s","e","x">>) /\ At(s, q2) \in {"M","F","m","f"}
          THEN << UpperChar(At(s, q2)) >> \o SexLabelsAnyCase(s, q2 + 1)
          ELSE SexLabelsAnyCase(s, p + 1)

\* C6: for any letter case of the label "Sex" followed by M or F in either
\* case, the result has the category sex with the letter in upper case.
C6_SexLabelAnyCase ==
  Detected =>
    LET found == SexLabelsAnyCase(extracted_text, 1) IN
    found # << >> =>
      /\ "sex" \in DOMAIN pii
      /\ pii["sex"] = [ k \in 1..Len(found) |-> << found[k] >> ]

\* the words redact_image redacts when its threshold is t
RedactedWords(t) ==
  LET r == RedactWith(img_bgr, ocr_data, pii_tokens, t) IN
  IF r.exc = "" THEN r.filled ELSE {}

\* C7: for thresholds t1 <= t2, the words redacted with t2 are among the
\* words redacted with t1 (the code's own threshold being one of them).
C7_MonotoneInThreshold ==
  RedactEnded =>
    LET words == [ t \in Thresholds \cup {ConfThreshold} |-> RedactedWords(t) ] IN
    /\ FilledInResult = words[ConfThreshold]
    /\ \A t1 \in Thresholds, t2 \in Thresholds :
         t1 <= t2 => words[t2] \subseteq words[t1]

\* C7, reached: a call where a higher threshold still redacts a word but
\* fewer than a lower one
C7_RaisingTheThresholdRemovesAWord ==
  /\ pc = "returned"
  /\ \E t1 \in Thresholds, t2 \in Thresholds :
       /\ t1 < t2
       /\ RedactedWords(t2) # {}
       /\ RedactedWords(t2) # RedactedWords(t1)

\* C8: redact_image applied to its own output, with the same word rows and
\* token set, returns an image equal to that output.
C8_Idempotent ==
  pc = "reapplied" => again.exc = "" /\ again.img = redacted.img

\* C8, reached: the second call made on an image the first call changed
C8_ReappliedToARedactedImage ==
  /\ pc = "reapplied"
  /\ redacted.filled # {}
  /\ redacted.img # img_bgr

\* no rule of detect_pii matches the text assembled from the word rows
NoRuleMatches ==
  \A r \in Range(Rules) : FindAll(r, build_full_text(ocr_data)) = << >>

\* C9: when no rule matches the assembled text, the pipeline yields an empty
\* PII map, an empty token set and a redacted image equal to the original,
\* whatever the confidences and boxes of the words.
C9_NoPiiLeavesTheImage ==
  ( /\ idx >= 1
    /\ pc = "save" \/ (pc = "raised" /\ exc = "TypeError")
    /\ NoRuleMatches )
  => /\ pii = NoPii
     /\ pii_tokens = {}
     /\ redacted.exc = ""
     /\ redacted.img = img_bgr

\* the text of word row rec is one of the values detect_pii reported
IsReportedValue(rec) ==
  \E key \in DOMAIN pii : \E k \in 1..Len(pii[key]) : pii[key][k] = rec.text

\* C10: every word with confidence >= 40 whose text is a whole value
\* reported by detect_pii is redacted.
C10_ReportedValuesAreRedacted ==
  pc = "save" =>
    \A i \in 1..Len(ocr_data) :
      ( /\ ParsesAsNumber(ocr_data[i].conf)
        /\ ~LessThan(Float(ocr_data[i].conf), 40)
        /\ IsReportedValue(ocr_data[i]) )
      => i \in redacted.filled
====
